---- MODULE Spec2Model ----
(***************************************************************************)
(* whoisit: an identd (RFC 1413) responder that asks lsof who owns a       *)
(* connection.  The model follows src/main.rs: the listener loop of main,  *)
(* the per-connection handler handle_client, and the pure functions        *)
(* parse_query, run_lsof (target construction and result) and              *)
(* search_for_port.  Text is modelled as sequences of one-character        *)
(* strings, so that splitting, trimming, integer parsing, decimal          *)
(* rendering and substring search are computed the way the code computes   *)
(* them.                                                                   *)
(*                                                                         *)
(* Specifications: Spec, the server with NumSessions concurrent            *)
(* connections; FairOthers, the same with every task but the first         *)
(* resumed fairly; SpecOne, the server over its first connection alone,    *)
(* with every client input and lookup run; FairOne, the same with the task *)
(* resumed fairly; SpecParse, SpecSearch and SpecTarget, the functions     *)
(* parse_query, search_for_port and the target construction of run_lsof    *)
(* applied to enumerated inputs.                                           *)
(***************************************************************************)
EXTENDS Integers, Sequences, FiniteSets, TLC

VARIABLES
    listener,     \* main: "Unbound" | "Listening" | "Exited"
    exitCause,    \* main: "none" | "bind" | "accept" (the error main returned)
    acceptFailed, \* main: TRUE once listener.accept() has returned an error
    pc,           \* handle_client, per session: the await point / stage
    peer,         \* handle_client: remote_ip (socket.peer_addr()?.ip())
    received,     \* what the peer put on the connection before the first read
    query,        \* handle_client: the line yielded by client.next()
    parsed,       \* handle_client: result of parse_query(&query)
    lsofCall,     \* arguments run_lsof was called with, per session
    lsofRun,      \* what the lsof subprocess did (spawn / exit status / stdout)
    lsofResult,   \* whether run_lsof(...).await returned Ok or Err
    matched,      \* result of search_for_port(local_port, lsof_output)
    sent,         \* responses handed to client.send, per session
    written,      \* bytes that reached the client's socket, per session
    reads,        \* number of client.next() calls made, per session
    exit,         \* how handle_client returned, per session
    pInput,       \* parse_query under test: the input case
    pResult,      \* parse_query under test: the result
    sInput,       \* search_for_port under test: the input case
    sResult,      \* search_for_port under test: the result
    tInput,       \* lsof_target_arg under test: the input case
    tResult       \* lsof_target_arg under test: the result

serverVars == <<listener, exitCause, acceptFailed, pc, peer, received, query, parsed,
                lsofCall, lsofRun, lsofResult, matched, sent, written, reads, exit>>
parseVars == <<pInput, pResult>>
searchVars == <<sInput, sResult>>
targetVars == <<tInput, tResult>>
vars == <<serverVars, parseVars, searchVars, targetVars>>

(***************************************************************************)
(* Bounds of the model.                                                    *)
(***************************************************************************)
NumSessions == 2   \* connections accepted over one run of the server
MaxQueryLen == 4   \* length of the exhaustively enumerated query strings
MaxPad == 2        \* whitespace characters on each side of a number
MaxLines == 3      \* lines of an enumerated lsof output

(***************************************************************************)
(* Program constants.                                                      *)
(***************************************************************************)
U16Max == 65535          \* (u16, u16)
MaxLineLength == 1024    \* LinesCodec::new_with_max_length(1024)

(***************************************************************************)
(* Option and Result values.                                               *)
(***************************************************************************)
None == [some |-> FALSE]
Some(v) == [some |-> TRUE, val |-> v]
Ok(v) == [ok |-> TRUE, val |-> v]
Err(e) == [ok |-> FALSE, err |-> e]
NotYet == [pending |-> TRUE]

(***************************************************************************)
(* Text helpers.  A string is a sequence of one-character strings.         *)
(***************************************************************************)
DigitChars == <<"0", "1", "2", "3", "4", "5", "6", "7", "8", "9">>

IsDigit(c) == \E d \in 1..10 : DigitChars[d] = c

DigitVal(c) == (CHOOSE d \in 1..10 : DigitChars[d] = c) - 1

\* char::is_whitespace, restricted to the characters the model uses
IsWhitespace(c) == c \in {" ", "\t", "\r", "\n"}

RECURSIVE ToDecimal(_)
\* format!("{}", n) for an unsigned integer
ToDecimal(n) ==
    IF n < 10 THEN <<DigitChars[n + 1]>>
    ELSE ToDecimal(n \div 10) \o <<DigitChars[(n % 10) + 1]>>

RECURSIVE TrimStart(_)
TrimStart(s) ==
    IF s = <<>> THEN <<>>
    ELSE IF IsWhitespace(Head(s)) THEN TrimStart(Tail(s))
    ELSE s

RECURSIVE TrimEnd(_)
TrimEnd(s) ==
    IF s = <<>> THEN <<>>
    ELSE IF IsWhitespace(s[Len(s)]) THEN TrimEnd(SubSeq(s, 1, Len(s) - 1))
    ELSE s

\* str::trim
Trim(s) == TrimEnd(TrimStart(s))

RECURSIVE IndexFrom(_, _, _)
\* index of the first occurrence of character c in s at or after i, 0 when
\* there is none
IndexFrom(s, c, i) ==
    IF i > Len(s) THEN 0
    ELSE IF s[i] = c THEN i
    ELSE IndexFrom(s, c, i + 1)

IndexOf(s, c) == IndexFrom(s, c, 1)

RECURSIVE SplitOn(_, _)
\* str::split(sep) collected: one more field than there are separators
SplitOn(s, sep) ==
    LET i == IndexOf(s, sep) IN
    IF i = 0 THEN <<s>>
    ELSE <<SubSeq(s, 1, i - 1)>> \o SplitOn(SubSeq(s, i + 1, Len(s)), sep)

\* str::contains(&pat)
Contains(s, pat) ==
    \E i \in 1..(Len(s) - Len(pat) + 1) : \A k \in 1..Len(pat) : s[i + k - 1] = pat[k]

(***************************************************************************)
(* parse_query                                                             *)
(***************************************************************************)
RECURSIVE ParseDigits(_, _)
\* the digit loop of u16::from_str: checked_mul(10) then checked_add(digit)
ParseDigits(digits, acc) ==
    IF digits = <<>> THEN Ok(acc)
    ELSE IF ~IsDigit(Head(digits)) THEN Err("InvalidDigit")
    ELSE LET next == acc * 10 + DigitVal(Head(digits)) IN
         IF next > U16Max THEN Err("PosOverflow")
         ELSE ParseDigits(Tail(digits), next)

\* <u16 as FromStr>::from_str, reached through ports[i].parse(): an unsigned
\* type takes one leading '+' and no '-'
parse_u16(s) ==
    IF s = <<>> THEN Err("Empty")
    ELSE LET digits == IF Head(s) = "+" THEN Tail(s) ELSE s IN
         IF digits = <<>> THEN Err("Empty")
         ELSE ParseDigits(digits, 0)

\* parse_query with the two fields taken in the other order
parse_query_swapped(q) ==
    LET fields == SplitOn(q, ",")
        ports == [i \in 1..Len(fields) |-> Trim(fields[i])]
    IN  IF Len(ports) /= 2 THEN Err("InvalidPort")
        ELSE LET l == parse_u16(ports[2])
                 p == parse_u16(ports[1])
             IN  IF ~l.ok THEN Err("ParseIntError")
                 ELSE IF ~p.ok THEN Err("ParseIntError")
                 ELSE Ok([local_port |-> l.val, remote_port |-> p.val])

parse_query(q) ==
    LET fields == SplitOn(q, ",")
        ports == [i \in 1..Len(fields) |-> Trim(fields[i])]
    IN  IF Len(ports) /= 2 THEN Err("InvalidPort")
        ELSE LET l == parse_u16(ports[1])
                 p == parse_u16(ports[2])
             IN  IF ~l.ok THEN Err("ParseIntError")
                 ELSE IF ~p.ok THEN Err("ParseIntError")
                 ELSE Ok([local_port |-> l.val, remote_port |-> p.val])

(***************************************************************************)
(* search_for_port                                                         *)
(***************************************************************************)
\* a byte that is not valid UTF-8 wherever it stands (0xFF)
BadByte == "0xFF"

\* String::from_utf8 on the bytes of a line, for the bytes the model uses
IsUtf8(bytes) == \A i \in 1..Len(bytes) : bytes[i] /= BadByte

\* the bytes BufRead::read_line consumes at pos: through the next "\n", or to
\* the end of the buffer
NextLine(buf, pos) ==
    LET i == IndexFrom(buf, "\n", pos)
    IN  SubSeq(buf, pos, IF i = 0 THEN Len(buf) ELSE i)

\* format!(":{}->", local_port)
Target(local_port) == <<":">> \o ToDecimal(local_port) \o <<"-", ">">>

RECURSIVE ScanLines(_, _, _, _)
\* the loop of search_for_port: read_line returning Ok(0) or Err ends it with
\* matching_user still None
ScanLines(buf, pos, current_user, target) ==
    IF pos > Len(buf) THEN None
    ELSE LET line == NextLine(buf, pos) IN
         IF ~IsUtf8(line) THEN None
         ELSE IF Head(line) = "L"
              THEN ScanLines(buf, pos + Len(line), Some(Trim(Tail(line))), target)
         ELSE IF Head(line) = "n" /\ Contains(line, target)
              THEN current_user
         ELSE ScanLines(buf, pos + Len(line), current_user, target)

RECURSIVE ScanLinesLast(_, _, _, _, _)
\* the loop without the break at a match: the last matching record decides
ScanLinesLast(buf, pos, current_user, matching_user, target) ==
    IF pos > Len(buf) THEN matching_user
    ELSE LET line == NextLine(buf, pos) IN
         IF ~IsUtf8(line) THEN matching_user
         ELSE IF Head(line) = "L"
              THEN ScanLinesLast(buf, pos + Len(line), Some(Trim(Tail(line))),
                                 matching_user, target)
         ELSE IF Head(line) = "n" /\ Contains(line, target)
              THEN ScanLinesLast(buf, pos + Len(line), current_user, current_user, target)
         ELSE ScanLinesLast(buf, pos + Len(line), current_user, matching_user, target)

search_for_port_last(local_port, lsof_output) ==
    ScanLinesLast(lsof_output, 1, None, None, Target(local_port))

RECURSIVE ScanLinesSkipping(_, _, _, _)
\* the loop going on to the next line after one that is not text
ScanLinesSkipping(buf, pos, current_user, target) ==
    IF pos > Len(buf) THEN None
    ELSE LET line == NextLine(buf, pos) IN
         IF ~IsUtf8(line) THEN ScanLinesSkipping(buf, pos + Len(line), current_user, target)
         ELSE IF Head(line) = "L"
              THEN ScanLinesSkipping(buf, pos + Len(line), Some(Trim(Tail(line))), target)
         ELSE IF Head(line) = "n" /\ Contains(line, target)
              THEN current_user
         ELSE ScanLinesSkipping(buf, pos + Len(line), current_user, target)

search_for_port_skipping(local_port, lsof_output) ==
    ScanLinesSkipping(lsof_output, 1, None, Target(local_port))

search_for_port(local_port, lsof_output) ==
    ScanLines(lsof_output, 1, None, Target(local_port))

(***************************************************************************)
(* Inputs of the pure functions under test.                                *)
(***************************************************************************)
BoundedSeqs(S, n) == UNION {[1..k -> S] : k \in 0..n}

RECURSIVE Flatten(_)
Flatten(ss) == IF ss = <<>> THEN <<>> ELSE Head(ss) \o Flatten(Tail(ss))

Rep(c, k) == [i \in 1..k |-> c]

Q_4000_5000 == <<"4", "0", "0", "0", ",", " ", "5", "0", "0", "0">>
Q_5000_80 == <<"5", "0", "0", "0", " ", ",", "8", "0">>
Q_notaport_80 == <<"n", "o", "t", "-", "a", "-", "p", "o", "r", "t", ",", " ", "8", "0">>
Q_plus == <<"+", "4", "0", "0", "0", ",", " ", "8", "0">>
Q_65535 == <<"6", "5", "5", "3", "5", ",", "6", "5", "5", "3", "5">>
Q_65536 == <<"6", "5", "5", "3", "6", ",", "8", "0">>
Q_99999 == <<"8", "0", ",", "9", "9", "9", "9", "9">>
Q_neg == <<"-", "1", ",", " ", "8", "0">>
Q_lead0 == <<"0", "4", "0", "0", "0", ",", " ", "0", "0", "8", "0">>

ParseAlphabet == {"1", ",", " ", "+", "-", "a"}
PortPairs == {<<0, U16Max>>, <<U16Max, 0>>, <<4000, 5000>>, <<80, 7>>,
              <<7, 7>>, <<65534, 10>>, <<0, 0>>, <<U16Max, U16Max>>}
Pads == {Rep(w, k) : w \in {" ", "\t"}, k \in 0..MaxPad}

\* "<a>,<b>" with whitespace around the comma and around each number
WellFormed(a, b, p1, p2, p3, p4) ==
    p1 \o ToDecimal(a) \o p2 \o <<",">> \o p3 \o ToDecimal(b) \o p4

ParseCases ==
    {[text |-> t, wf |-> FALSE, a |-> 0, b |-> 0] :
        t \in BoundedSeqs(ParseAlphabet, MaxQueryLen)
              \cup {Q_4000_5000, Q_5000_80, Q_notaport_80, Q_plus, Q_65535,
                    Q_65536, Q_99999, Q_neg, Q_lead0}}
    \cup {[text |-> WellFormed(c[1][1], c[1][2], c[2], c[3], c[4], c[5]),
           wf |-> TRUE, a |-> c[1][1], b |-> c[1][2]] :
            c \in PortPairs \X Pads \X Pads \X Pads \X Pads}

Line_p == <<"p", "4", "2", "4", "2", "\n">>
Line_Lalice == <<"L", "a", "l", "i", "c", "e", "\n">>
Line_Lbob == <<"L", "b", "o", "b", "\n">>
Line_Lblank == <<"L", " ", "\r", "\n">>
Line_n4000 == <<"n", "1", "2", "7", ".", "0", ".", "0", ".", "1", ":", "4", "0", "0", "0", "-", ">", "1", "2", "7", ".", "0", ".", "0", ".", "1", ":", "8", "0", "\n">>
Line_n5000 == <<"n", "1", "2", "7", ".", "0", ".", "0", ".", "1", ":", "5", "0", "0", "0", "-", ">", "1", "2", "7", ".", "0", ".", "0", ".", "1", ":", "8", "0", "\n">>
Line_n14000 == <<"n", "[", ":", ":", "1", "]", ":", "1", "4", "0", "0", "0", "-", ">", "[", ":", ":", "1", "]", ":", "8", "0", "\n">>
Line_L4000 == <<"L", ":", "4", "0", "0", "0", "-", ">", "\n">>
Line_bad == <<"p", BadByte, "\n">>
Line_n4000bad == <<"n", BadByte, ":", "4", "0", "0", "0", "-", ">", "\n">>
Line_n5000open == <<"n", "*", ":", "5", "0", "0", "0", "-", ">", "*">>

LineSet == {Line_p, Line_Lalice, Line_Lbob, Line_Lblank, Line_n4000, Line_n5000,
            Line_bad}

\* the listing of the spec's round-trip scenario
SampleOutput == Line_Lalice \o Line_n4000 \o Line_Lbob \o Line_n5000

SearchOutputs ==
    {Flatten(ls) : ls \in BoundedSeqs(LineSet, MaxLines)}
    \cup {SampleOutput,
          Line_p \o Line_Lalice \o Line_n14000 \o Line_Lbob \o Line_n4000,
          Line_L4000 \o Line_n5000 \o Line_n4000,
          Line_Lalice \o Line_n4000bad \o Line_Lbob \o Line_n4000,
          Line_Lalice \o Line_n4000 \o Line_n5000open}

SearchPorts == {4000, 5000, 9999}

SearchCases == [port : SearchPorts, output : SearchOutputs]

(***************************************************************************)
(* run_lsof                                                                *)
(***************************************************************************)
\* Ipv6Addr::to_ipv4: Some for ::a.b.c.d and ::ffff:a.b.c.d
to_ipv4(segments) ==
    IF SubSeq(segments, 1, 5) = <<0, 0, 0, 0, 0>> /\ segments[6] \in {0, 65535}
    THEN Some(<<segments[7] \div 256, segments[7] % 256,
                segments[8] \div 256, segments[8] % 256>>)
    ELSE None

HexChars == <<"0", "1", "2", "3", "4", "5", "6", "7", "8", "9", "a", "b", "c", "d", "e", "f">>

RECURSIVE ToHex(_)
\* format!("{:x}", n)
ToHex(n) ==
    IF n < 16 THEN <<HexChars[n + 1]>>
    ELSE ToHex(n \div 16) \o <<HexChars[(n % 16) + 1]>>

RECURSIVE Join(_, _)
Join(parts, sep) ==
    IF parts = <<>> THEN <<>>
    ELSE IF Len(parts) = 1 THEN parts[1]
    ELSE parts[1] \o sep \o Join(Tail(parts), sep)

\* <Ipv4Addr as Display>::fmt: the four octets in decimal
DisplayIpv4(octets) == Join([i \in 1..4 |-> ToDecimal(octets[i])], <<".">>)

\* <Ipv6Addr as Display>::fmt: the segments in hexadecimal, the first longest
\* run of two or more zero segments written "::".  (The notations with an
\* embedded IPv4 address are not modelled: no address the model renders as
\* IPv6 has one.)
DisplayIpv6(segments) ==
    LET run(i) ==
            IF segments[i] /= 0 THEN 0
            ELSE LET stops == {j \in i..8 : segments[j] /= 0}
                 IN  IF stops = {} THEN 9 - i
                     ELSE (CHOOSE j \in stops : \A k \in stops : j <= k) - i
        best == CHOOSE i \in 1..8 :
                    \A j \in 1..8 : run(i) > run(j) \/ (run(i) = run(j) /\ i <= j)
        hex(a, b) == Join([k \in 1..(b - a + 1) |-> ToHex(segments[a + k - 1])], <<":">>)
    IN  IF run(best) > 1
        THEN hex(1, best - 1) \o <<":", ":">> \o hex(best + run(best), 8)
        ELSE hex(1, 8)

\* lsof_target_arg with the family taken from the type of the address alone
lsof_target_arg_by_type(remote_port, remote_host) ==
    IF remote_host.family = "V4"
    THEN <<"4", "T", "C", "P", "@">> \o DisplayIpv4(remote_host.addr)
             \o <<":">> \o ToDecimal(remote_port)
    ELSE <<"6", "T", "C", "P", "@", "[">> \o DisplayIpv6(remote_host.addr)
             \o <<"]", ":">> \o ToDecimal(remote_port)

\* lsof_target_arg: format!("4TCP@{}:{}", ..) for an IPv4 address and for an
\* IPv4-mapped IPv6 address, format!("6TCP@[{}]:{}", ..) for any other
lsof_target_arg(remote_port, remote_host) ==
    IF remote_host.family = "V4"
    THEN <<"4", "T", "C", "P", "@">> \o DisplayIpv4(remote_host.addr)
             \o <<":">> \o ToDecimal(remote_port)
    ELSE LET v4 == to_ipv4(remote_host.addr) IN
         IF v4.some /\ SubSeq(remote_host.addr, 1, 6) = <<0, 0, 0, 0, 0, 65535>>
         THEN <<"4", "T", "C", "P", "@">> \o DisplayIpv4(v4.val)
                  \o <<":">> \o ToDecimal(remote_port)
         ELSE <<"6", "T", "C", "P", "@", "[">> \o DisplayIpv6(remote_host.addr)
                  \o <<"]", ":">> \o ToDecimal(remote_port)

\* remote hosts and ports lsof_target_arg is applied to: 192.0.2.5,
\* 10.0.0.255, ::ffff:192.0.2.5, ::ffff:10.0.0.255, 2001:db8::1, ::1, ::,
\* ::ffff:0:c000:205, fe80::1:0:0:1, 2001:db8:0:1:0:2:0:3
HostV4a == [family |-> "V4", addr |-> <<192, 0, 2, 5>>]
HostV4b == [family |-> "V4", addr |-> <<10, 0, 0, 255>>]
HostMappedA == [family |-> "V6", addr |-> <<0, 0, 0, 0, 0, 65535, 49152, 517>>]
HostMappedB == [family |-> "V6", addr |-> <<0, 0, 0, 0, 0, 65535, 2560, 255>>]
HostV6a == [family |-> "V6", addr |-> <<8193, 3512, 0, 0, 0, 0, 0, 1>>]
HostLoopback == [family |-> "V6", addr |-> <<0, 0, 0, 0, 0, 0, 0, 1>>]
HostUnspecified == [family |-> "V6", addr |-> <<0, 0, 0, 0, 0, 0, 0, 0>>]
HostShifted == [family |-> "V6", addr |-> <<0, 0, 0, 0, 65535, 0, 49152, 517>>]
HostLinkLocal == [family |-> "V6", addr |-> <<65152, 0, 0, 0, 1, 0, 0, 1>>]
HostNoRun == [family |-> "V6", addr |-> <<8193, 3512, 0, 1, 0, 2, 0, 3>>]
TargetHosts == {HostV4a, HostV4b, HostMappedA, HostMappedB, HostV6a, HostLoopback,
                HostUnspecified, HostShifted, HostLinkLocal, HostNoRun}
TargetPorts == {0, 7, 80, 113, 4000, 5000, U16Max}
TargetCases == [host : TargetHosts, port : TargetPorts]

\* what one run of the lsof subprocess can do: fail to spawn, or run to
\* completion with some exit status and some standard output
Line_n6_4000 == <<"n", "[", ":", ":", "1", "]", ":", "4", "0", "0", "0", "-", ">", "[", ":", ":", "1", "]", ":", "8", "0", "\n">>
Line_n6_5000 == <<"n", "[", ":", ":", "1", "]", ":", "5", "0", "0", "0", "-", ">", "[", ":", ":", "1", "]", ":", "8", "0", "\n">>
ListingOutput == Line_p \o Line_Lalice \o Line_n6_4000 \o Line_Lbob \o Line_n6_5000
LsofOutputs == {<<>>, ListingOutput}
LsofRuns ==
    {[spawned |-> FALSE, success |-> FALSE, stdout |-> <<>>]}
    \cup [spawned : {TRUE}, success : {TRUE}, stdout : LsofOutputs]
    \cup {[spawned |-> TRUE, success |-> FALSE, stdout |-> ListingOutput]}

\* further runs for a single connection: a listing whose login line is blank
\* before the record asked for, and one with the record before any login line
BlankLoginOutput == Line_p \o Line_Lblank \o Line_n6_4000 \o Line_Lbob \o Line_n6_5000
NoLoginOutput == Line_p \o Line_n6_4000 \o Line_Lbob \o Line_n6_5000 \o Line_n6_4000
LsofRunsOne ==
    LsofRuns \cup [spawned : {TRUE}, success : {TRUE},
                   stdout : {BlankLoginOutput, NoLoginOutput}]

\* run_lsof returning an error for a process that exited unsuccessfully
run_lsof_checks_status(run) ==
    IF ~run.spawned \/ ~run.success THEN Err("io::Error") ELSE Ok(run.stdout)

\* Command::output().await?.stdout: the error of output() is the failure to
\* spawn or to collect; the exit status of a completed process is not read
run_lsof(run) ==
    IF ~run.spawned THEN Err("io::Error") ELSE Ok(run.stdout)

(***************************************************************************)
(* handle_client                                                           *)
(***************************************************************************)
Sessions == 1..NumSessions

\* ::ffff:192.0.2.5 and 2001:db8::1
PeerMapped == [family |-> "V6", addr |-> <<0, 0, 0, 0, 0, 65535, 49152, 517>>]
PeerV6 == [family |-> "V6", addr |-> <<8193, 3512, 0, 0, 0, 0, 0, 1>>]
Peers == {PeerMapped, PeerV6}

Q_4000_80 == <<"4", "0", "0", "0", ",", "8", "0">>

Queries == {Q_4000_5000, Q_5000_80, Q_notaport_80, Q_4000_80}

\* the bytes a client sends: a query and its terminator, CRLF or a bare LF
ClientLines == {Q_4000_80 \o <<"\r", "\n">>, Q_5000_80 \o <<"\n">>,
                Q_notaport_80 \o <<"\r", "\n">>}

InvalidPortSuffix == <<" ", ":", " ", "E", "R", "R", "O", "R", " ", ":", " ", "I", "N", "V", "A", "L", "I", "D", "-", "P", "O", "R", "T", "\r">>
NoUserSuffix == <<" ", ":", " ", "E", "R", "R", "O", "R", " ", ":", " ", "N", "O", "-", "U", "S", "E", "R", "\r">>
UserIdInfix == <<" ", ":", " ", "U", "S", "E", "R", "I", "D", " ", ":", " ", "U", "N", "I", "X", " ", ":", " ">>

\* LinesCodec::decode: the bytes before the first "\n", less one trailing "\r"
decode_line(raw) ==
    LET i == IndexOf(raw, "\n")
        line == SubSeq(raw, 1, i - 1)
    IN  IF line /= <<>> /\ line[Len(line)] = "\r"
        THEN SubSeq(line, 1, Len(line) - 1)
        ELSE line

\* what a peer does on its connection: the bytes it sends and how its sending
\* ends: "open" (it goes on waiting), "eof" (it closes), "reset" (the read
\* fails with an I/O error)
Sends(bytes, end) == [bytes |-> bytes, end |-> end]

\* one byte more than LinesCodec accepts without a line terminator
OverlongBytes == Rep("1", MaxLineLength + 1)

\* the clients of the concurrent server: one of the lines, or nothing and a
\* close
ClientSends == {Sends(l, "open") : l \in ClientLines} \cup {Sends(<<>>, "eof")}

\* the clients of a single connection: those, and a line left unterminated
\* at the close, a lone "\r", input over the maximum length with and without
\* a terminator behind it, a read error, and bytes that are not text
ClientInputs ==
    ClientSends
    \cup {Sends(Q_4000_5000 \o <<"\r", "\n">>, "open"),
          Sends(Q_4000_5000, "eof"),
          Sends(<<"\r">>, "eof"),
          Sends(OverlongBytes, "open"),
          Sends(OverlongBytes \o <<"\n">>, "open"),
          Sends(<<"4", "0">>, "reset"),
          Sends(<<BadByte, "\n">>, "open")}

\* the value of client.next().await, Framed over LinesCodec with max_length:
\* decode looks for "\n" in the first max_length + 1 bytes and fails when the
\* buffer is longer than max_length without one; at the end of the stream
\* decode_eof yields what is left, unless nothing or a lone "\r" is left
client_next(input) ==
    LET bytes == input.bytes
        read_to == IF Len(bytes) < MaxLineLength + 1 THEN Len(bytes)
                   ELSE MaxLineLength + 1
        terminated == \E i \in 1..read_to : bytes[i] = "\n"
        rest == IF bytes /= <<>> /\ bytes[Len(bytes)] = "\r"
                THEN SubSeq(bytes, 1, Len(bytes) - 1) ELSE bytes
    IN  IF terminated
        THEN IF IsUtf8(decode_line(bytes)) THEN Some(Ok(decode_line(bytes)))
             ELSE Some(Err("InvalidData"))
        ELSE IF Len(bytes) > MaxLineLength THEN Some(Err("MaxLineLengthExceeded"))
        ELSE IF input.end = "reset" THEN Some(Err("Io"))
        ELSE IF input.end = "eof"
             THEN IF bytes = <<>> \/ bytes = <<"\r">> THEN None
                  ELSE IF IsUtf8(rest) THEN Some(Ok(rest))
                  ELSE Some(Err("InvalidData"))
        ELSE NotYet

\* the arms of match client.next().await: Some(Ok(q)), and everything else
IsLine(frame) == frame /= NotYet /\ frame.some /\ frame.val.ok
IsNoLine(frame) == frame /= NotYet /\ (IF frame.some THEN ~frame.val.ok ELSE TRUE)

\* LinesCodec::encode: the line followed by "\n"
encode_line(line) == line \o <<"\n">>

\* the INVALID-PORT response with another reason code
InvalidPortResponseUnknown(q) ==
    q \o <<" ", ":", " ", "E", "R", "R", "O", "R", " ", ":", " ", "U", "N", "K", "N", "O", "W", "N", "-", "E", "R", "R", "O", "R", "\r">>

\* format!("{} : ERROR : INVALID-PORT\r", query)
InvalidPortResponse(q) == q \o InvalidPortSuffix

\* format!("{} : USERID : UNIX : {}\r", query, user)
UserIdResponse(q, user) == q \o UserIdInfix \o user \o <<"\r">>

\* format!("{} : ERROR : NO-USER\r", query)
NoUserResponse(q) == q \o NoUserSuffix

\* the process is running: main has bound the listener and has not returned
Alive == listener = "Listening"

\* a query buffer shared by the handlers instead of a local of each
SharedQuery(s) ==
    LET others == {t \in Sessions : t /= s /\ query[t].some}
    IN  IF others = {} THEN query[s].val ELSE query[CHOOSE t \in others : TRUE].val

\* the locals of the session's own future
OwnQuery(s) == query[s].val
RemoteIp(s) == peer[s]
LocalPort(s) == parsed[s].val.local_port

\* the lookup called with a remote host read from the query: the local port
\* taken as the last segment of the address
CallRunLsofHostFromQuery(s, line, ports) ==
    LET host == [family |-> "V6",
                 addr |-> <<8193, 3512, 0, 0, 0, 0, 0, ports.local_port>>]
    IN  [remote_port |-> ports.remote_port,
         remote_host |-> host,
         target |-> lsof_target_arg(ports.remote_port, host)]

\* run_lsof(remote_port, remote_ip): the arguments of the call and the target
\* it builds from them
CallRunLsof(s, line, ports) ==
    [remote_port |-> ports.remote_port,
     remote_host |-> RemoteIp(s),
     target |-> lsof_target_arg(ports.remote_port, RemoteIp(s))]

\* the response with the query rendered again from the parsed ports
BuildResponseRerendered(s, m) ==
    LET q == ToDecimal(parsed[s].val.local_port) \o <<",", " ">>
                 \o ToDecimal(parsed[s].val.remote_port)
    IN  IF m.some THEN UserIdResponse(q, m.val) ELSE NoUserResponse(q)

\* the response taking an empty username for no user
BuildResponseBlankIsNoUser(s, m) ==
    IF m.some /\ m.val /= <<>> THEN UserIdResponse(OwnQuery(s), m.val)
    ELSE NoUserResponse(OwnQuery(s))

\* the response built by the match on search_for_port's result
BuildResponse(s, m) ==
    IF m.some THEN UserIdResponse(OwnQuery(s), m.val)
    ELSE NoUserResponse(OwnQuery(s))

\* handle_client up to its first await: let remote_ip =
\* socket.peer_addr()?.ip(), then Framed::new and client.next()
Begin(s, ip) ==
    /\ pc' = [pc EXCEPT ![s] = "AwaitingQuery"]
    /\ peer' = [peer EXCEPT ![s] = ip]
    /\ UNCHANGED exit

\* handle_client when socket.peer_addr()? returns the error
BeginNoPeerAddr(s) ==
    /\ pc' = [pc EXCEPT ![s] = "Closed"]
    /\ exit' = [exit EXCEPT ![s] = "PeerAddrError"]
    /\ UNCHANGED peer

\* ReadQuery answering NO-USER as soon as the query has parsed, before the
\* lookup is called
ReadQueryAnswerFirst(s, raw) ==
    /\ Alive /\ pc[s] = "AwaitingQuery"
    /\ IsLine(client_next(raw))
    /\ received' = [received EXCEPT ![s] = raw]
    /\ reads' = [reads EXCEPT ![s] = @ + 1]
    /\ LET line == client_next(raw).val.val
           r == parse_query(line)
       IN  /\ query' = [query EXCEPT ![s] = Some(line)]
           /\ parsed' = [parsed EXCEPT ![s] = r]
           /\ IF r.ok
              THEN /\ lsofCall' = [lsofCall EXCEPT ![s] = CallRunLsof(s, line, r.val)]
                   /\ sent' = [sent EXCEPT ![s] = Append(@, NoUserResponse(line))]
                   /\ pc' = [pc EXCEPT ![s] = "Invoking"]
              ELSE /\ sent' = [sent EXCEPT ![s] = Append(@, InvalidPortResponse(line))]
                   /\ pc' = [pc EXCEPT ![s] = "SendingInvalidPort"]
                   /\ UNCHANGED lsofCall
    /\ UNCHANGED <<parseVars, searchVars, targetVars, listener, exitCause, acceptFailed, peer,
                   lsofRun, lsofResult, matched, written, exit>>

\* client.next().await yields Some(Ok(q)); then match parse_query(&query): on
\* Err hand the INVALID-PORT response to client.send, on Ok call
\* run_lsof(remote_port, remote_ip)
ReadQuery(s, raw) ==
    /\ Alive /\ pc[s] = "AwaitingQuery"
    /\ IsLine(client_next(raw))
    /\ received' = [received EXCEPT ![s] = raw]
    /\ reads' = [reads EXCEPT ![s] = @ + 1]
    /\ LET line == client_next(raw).val.val
           r == parse_query(line)
       IN  /\ query' = [query EXCEPT ![s] = Some(line)]
           /\ parsed' = [parsed EXCEPT ![s] = r]
           /\ IF r.ok
              THEN /\ lsofCall' = [lsofCall EXCEPT ![s] = CallRunLsof(s, line, r.val)]
                   /\ pc' = [pc EXCEPT ![s] = "Invoking"]
                   /\ UNCHANGED sent
              ELSE /\ sent' = [sent EXCEPT ![s] = Append(@, InvalidPortResponse(line))]
                   /\ pc' = [pc EXCEPT ![s] = "SendingInvalidPort"]
                   /\ UNCHANGED lsofCall
    /\ UNCHANGED <<parseVars, searchVars, targetVars, listener, exitCause, acceptFailed, peer,
                   lsofRun, lsofResult, matched, written, exit>>

\* the no-query exit answered with an error line instead of returned
ReadNoQueryAnswered(s, raw) ==
    /\ Alive /\ pc[s] = "AwaitingQuery"
    /\ IsNoLine(client_next(raw))
    /\ received' = [received EXCEPT ![s] = raw]
    /\ reads' = [reads EXCEPT ![s] = @ + 1]
    /\ sent' = [sent EXCEPT ![s] = Append(@, InvalidPortResponseUnknown(<<"0", ",", "0">>))]
    /\ pc' = [pc EXCEPT ![s] = "Responding"]
    /\ UNCHANGED <<parseVars, searchVars, targetVars, listener, exitCause, acceptFailed, peer,
                   query, parsed, lsofCall, lsofRun, lsofResult, matched, written,
                   exit>>

\* client.next().await yields None (peer closed) or Some(Err(_)) (line over
\* the maximum length, bytes that are not text, read error)
ReadNoQuery(s, raw) ==
    /\ Alive /\ pc[s] = "AwaitingQuery"
    /\ IsNoLine(client_next(raw))
    /\ received' = [received EXCEPT ![s] = raw]
    /\ reads' = [reads EXCEPT ![s] = @ + 1]
    /\ pc' = [pc EXCEPT ![s] = "Closed"]
    /\ exit' = [exit EXCEPT ![s] = "NoQuery"]
    /\ UNCHANGED <<parseVars, searchVars, targetVars, listener, exitCause, acceptFailed, peer,
                   query, parsed, lsofCall, lsofRun, lsofResult, matched, sent,
                   written>>

\* the INVALID-PORT exit returning Err(e) without a send
SendInvalidPortSilent(s, delivered) ==
    /\ Alive /\ pc[s] = "SendingInvalidPort"
    /\ exit' = [exit EXCEPT ![s] = IF delivered THEN "InvalidPort" ELSE "SendError"]
    /\ pc' = [pc EXCEPT ![s] = "Closed"]
    /\ UNCHANGED <<parseVars, searchVars, targetVars, received, listener, exitCause, acceptFailed, peer,
                   query, parsed, lsofCall, lsofRun, lsofResult, matched, sent,
                   written, reads>>

\* client.send(response).await? of the INVALID-PORT response, then return Err(e)
SendInvalidPort(s, delivered) ==
    /\ Alive /\ pc[s] = "SendingInvalidPort"
    /\ written' = [written EXCEPT ![s] =
                      IF delivered THEN @ \o encode_line(sent[s][Len(sent[s])]) ELSE @]
    /\ exit' = [exit EXCEPT ![s] = IF delivered THEN "InvalidPort" ELSE "SendError"]
    /\ pc' = [pc EXCEPT ![s] = "Closed"]
    /\ UNCHANGED <<parseVars, searchVars, targetVars, received, listener, exitCause, acceptFailed, peer,
                   query, parsed, lsofCall, lsofRun, lsofResult, matched, sent,
                   reads>>

\* a lookup failure answered to the client instead of returned
OnLookupErrorAnswered(s) ==
    /\ sent' = [sent EXCEPT ![s] = Append(@, InvalidPortResponseUnknown(OwnQuery(s)))]
    /\ pc' = [pc EXCEPT ![s] = "Responding"]
    /\ UNCHANGED <<matched, exit>>

\* the ? on run_lsof(...).await: handle_client returns the lookup error
OnLookupError(s) ==
    /\ pc' = [pc EXCEPT ![s] = "Closed"]
    /\ exit' = [exit EXCEPT ![s] = "LookupError"]
    /\ UNCHANGED <<matched, sent>>

\* run_lsof(remote_port, remote_ip).await? resolves: on Err return it; on Ok
\* match search_for_port(local_port, lsof_output), build the response and hand
\* it to client.send
LsofCompletes(s, run) ==
    /\ Alive /\ pc[s] = "Invoking"
    /\ lsofRun' = [lsofRun EXCEPT ![s] = run]
    /\ LET out == run_lsof(run) IN
       /\ lsofResult' = [lsofResult EXCEPT ![s] = [ok |-> out.ok]]
       /\ IF out.ok
          THEN LET m == search_for_port(LocalPort(s), out.val) IN
               /\ matched' = [matched EXCEPT ![s] = m]
               /\ sent' = [sent EXCEPT ![s] = Append(@, BuildResponse(s, m))]
               /\ pc' = [pc EXCEPT ![s] = "Responding"]
               /\ UNCHANGED exit
          ELSE OnLookupError(s)
    /\ UNCHANGED <<parseVars, searchVars, targetVars, received, listener, exitCause, acceptFailed, peer,
                   query, parsed, lsofCall, written, reads>>

\* client.send(response).await? of the USERID / NO-USER response, then Ok(())
SendResponse(s, delivered) ==
    /\ Alive /\ pc[s] = "Responding"
    /\ written' = [written EXCEPT ![s] =
                      IF delivered THEN @ \o encode_line(sent[s][Len(sent[s])]) ELSE @]
    /\ exit' = [exit EXCEPT ![s] = IF delivered THEN "Ok" ELSE "SendError"]
    /\ pc' = [pc EXCEPT ![s] = "Closed"]
    /\ UNCHANGED <<parseVars, searchVars, targetVars, received, listener, exitCause, acceptFailed, peer,
                   query, parsed, lsofCall, lsofRun, lsofResult, matched, sent,
                   reads>>

(***************************************************************************)
(* main                                                                    *)
(***************************************************************************)
\* TcpListener::bind(&binding).await succeeds
BindOk ==
    /\ listener = "Unbound"
    /\ listener' = "Listening"
    /\ UNCHANGED <<parseVars, searchVars, targetVars, received, exitCause, acceptFailed, pc, peer, query, parsed, lsofCall,
                   lsofRun, lsofResult, matched, sent, written, reads, exit>>

\* TcpListener::bind(&binding).await? returns the error from main
BindFails ==
    /\ listener = "Unbound"
    /\ listener' = "Exited"
    /\ exitCause' = "bind"
    /\ UNCHANGED <<parseVars, searchVars, targetVars, received, acceptFailed, pc, peer, query, parsed, lsofCall, lsofRun,
                   lsofResult, matched, sent, written, reads, exit>>

\* the next connection slot: connections are numbered in the order accepted
NextSession == CHOOSE s \in Sessions : pc[s] = "Idle" /\ \A t \in 1..(s - 1) : pc[t] /= "Idle"

\* the accept loop awaiting each handler in line instead of spawning it: no
\* accept while a handler has not returned
AcceptOkInline(ip) ==
    /\ Alive
    /\ \A s \in Sessions : pc[s] \in {"Idle", "Closed"}
    /\ \E s \in Sessions : pc[s] = "Idle"
    /\ Begin(NextSession, ip)
    /\ UNCHANGED <<parseVars, searchVars, targetVars, received, listener, exitCause, acceptFailed,
                   query, parsed, lsofCall, lsofRun, lsofResult, matched, sent,
                   written, reads>>

\* listener.accept().await yields a socket; tokio::spawn(handle_client(socket)),
\* and the new task runs to its first await
AcceptOk(ip) ==
    /\ Alive
    /\ \E s \in Sessions : pc[s] = "Idle"
    /\ Begin(NextSession, ip)
    /\ UNCHANGED <<parseVars, searchVars, targetVars, received, listener, exitCause, acceptFailed,
                   query, parsed, lsofCall, lsofRun, lsofResult, matched, sent,
                   written, reads>>

\* the same, for a socket whose peer address cannot be read
AcceptNoPeerAddr ==
    /\ Alive
    /\ \E s \in Sessions : pc[s] = "Idle"
    /\ BeginNoPeerAddr(NextSession)
    /\ UNCHANGED <<parseVars, searchVars, targetVars, received, listener, exitCause, acceptFailed,
                   query, parsed, lsofCall, lsofRun, lsofResult, matched, sent,
                   written, reads>>

\* the per-connection variables with no connection recorded
NoSessionData ==
    [peer |-> [s \in Sessions |-> None],
     received |-> [s \in Sessions |-> NotYet],
     query |-> [s \in Sessions |-> None],
     parsed |-> [s \in Sessions |-> NotYet],
     lsofCall |-> [s \in Sessions |-> NotYet],
     lsofRun |-> [s \in Sessions |-> NotYet],
     lsofResult |-> [s \in Sessions |-> NotYet],
     matched |-> [s \in Sessions |-> NotYet],
     sent |-> [s \in Sessions |-> <<>>],
     written |-> [s \in Sessions |-> <<>>],
     reads |-> [s \in Sessions |-> 0],
     exit |-> [s \in Sessions |-> "none"]]

\* listener.accept().await? returns the error from main: the loop ends, main
\* returns, and the runtime goes with every spawned task and every socket.
\* A handler that had not returned is aborted where it stood.  Of a process
\* that has ended the model keeps, per connection, only whether its handler
\* had returned.
AcceptFails ==
    /\ Alive
    /\ listener' = "Exited"
    /\ exitCause' = "accept"
    /\ acceptFailed' = TRUE
    /\ pc' = [s \in Sessions |->
                IF pc[s] \in {"Idle", "Closed"} THEN pc[s] ELSE "Aborted"]
    /\ peer' = NoSessionData.peer
    /\ received' = NoSessionData.received
    /\ query' = NoSessionData.query
    /\ parsed' = NoSessionData.parsed
    /\ lsofCall' = NoSessionData.lsofCall
    /\ lsofRun' = NoSessionData.lsofRun
    /\ lsofResult' = NoSessionData.lsofResult
    /\ matched' = NoSessionData.matched
    /\ sent' = NoSessionData.sent
    /\ written' = NoSessionData.written
    /\ reads' = NoSessionData.reads
    /\ exit' = NoSessionData.exit
    /\ UNCHANGED <<parseVars, searchVars, targetVars>>

(***************************************************************************)
(* Specifications.                                                         *)
(***************************************************************************)
ServerInit ==
    /\ listener = "Unbound"
    /\ exitCause = "none"
    /\ acceptFailed = FALSE
    /\ pc = [s \in Sessions |-> "Idle"]
    /\ peer = NoSessionData.peer
    /\ received = NoSessionData.received
    /\ query = NoSessionData.query
    /\ parsed = NoSessionData.parsed
    /\ lsofCall = NoSessionData.lsofCall
    /\ lsofRun = NoSessionData.lsofRun
    /\ lsofResult = NoSessionData.lsofResult
    /\ matched = NoSessionData.matched
    /\ sent = NoSessionData.sent
    /\ written = NoSessionData.written
    /\ reads = NoSessionData.reads
    /\ exit = NoSessionData.exit

ParseIdle == pInput = NotYet /\ pResult = NotYet
SearchIdle == sInput = NotYet /\ sResult = NotYet
TargetIdle == tInput = NotYet /\ tResult = NotYet

Init == ServerInit /\ ParseIdle /\ SearchIdle /\ TargetIdle

SessionStep(s) ==
    \/ \E raw \in ClientSends : ReadQuery(s, raw)
    \/ \E raw \in ClientSends : ReadNoQuery(s, raw)
    \/ \E delivered \in BOOLEAN : SendInvalidPort(s, delivered)
    \/ \E run \in LsofRuns : LsofCompletes(s, run)
    \/ \E delivered \in BOOLEAN : SendResponse(s, delivered)

Next ==
    \/ BindOk
    \/ BindFails
    \/ \E ip \in Peers : AcceptOk(ip)
    \/ AcceptNoPeerAddr
    \/ AcceptFails
    \/ \E s \in Sessions : SessionStep(s)

Spec == Init /\ [][Next]_vars

\* the server over its first connection alone, with every client and every
\* lookup run the model has
PeersOne == {h \in TargetHosts : h.family = "V6"}

FirstStep ==
    \/ \E raw \in ClientInputs : ReadQuery(1, raw)
    \/ \E raw \in ClientInputs : ReadNoQuery(1, raw)
    \/ \E delivered \in BOOLEAN : SendInvalidPort(1, delivered)
    \/ \E run \in LsofRunsOne : LsofCompletes(1, run)
    \/ \E delivered \in BOOLEAN : SendResponse(1, delivered)

AcceptFirst(ip) == pc[1] = "Idle" /\ AcceptOk(ip)
AcceptFirstNoPeerAddr == pc[1] = "Idle" /\ AcceptNoPeerAddr

NextOne ==
    \/ BindOk
    \/ BindFails
    \/ \E ip \in PeersOne : AcceptFirst(ip)
    \/ AcceptFirstNoPeerAddr
    \/ AcceptFails
    \/ FirstStep

SpecOne == Init /\ [][NextOne]_vars

\* the task of connection s is resumed at its await and runs to its next
\* await or to its return: the steps of handle_client, seen in pc alone
Resumes(s) ==
    /\ Alive /\ pc[s] \notin {"Idle", "Closed"}
    /\ \E st \in {"Invoking", "SendingInvalidPort", "Responding", "Closed"} :
          st /= pc[s] /\ pc' = [pc EXCEPT ![s] = st]

\* the same where what a handler awaits eventually happens while the process
\* runs: the peer sends its line or closes, the lsof subprocess completes,
\* the write completes or fails, and the runtime resumes the task
FairOne == SpecOne /\ WF_pc(Resumes(1))

\* the concurrent server where the tasks of all connections but the first
\* are resumed when what they await happens; the first may wait for ever
FairOthers == Spec /\ \A s \in Sessions \ {1} : WF_pc(Resumes(s))

\* parse_query applied to one input
ParseStep ==
    /\ pResult = NotYet
    /\ pResult' = parse_query(pInput.text)
    /\ UNCHANGED <<pInput, serverVars, searchVars, targetVars>>

ParseInit == ServerInit /\ SearchIdle /\ TargetIdle /\ pInput \in ParseCases /\ pResult = NotYet

SpecParse == ParseInit /\ [][ParseStep]_vars

\* search_for_port applied to one input
SearchStep ==
    /\ sResult = NotYet
    /\ sResult' = search_for_port(sInput.port, sInput.output)
    /\ UNCHANGED <<sInput, serverVars, parseVars, targetVars>>

SearchInit ==
    ServerInit /\ ParseIdle /\ TargetIdle /\ sInput \in SearchCases /\ sResult = NotYet

SpecSearch == SearchInit /\ [][SearchStep]_vars

\* lsof_target_arg built for one remote host and port
TargetStep ==
    /\ tResult = NotYet
    /\ tResult' = lsof_target_arg(tInput.port, tInput.host)
    /\ UNCHANGED <<tInput, serverVars, parseVars, searchVars>>

TargetInit ==
    ServerInit /\ ParseIdle /\ SearchIdle /\ tInput \in TargetCases /\ tResult = NotYet

SpecTarget == TargetInit /\ [][TargetStep]_vars

(***************************************************************************)
(* Reference notions the claims are stated with.                           *)
(***************************************************************************)
Done(x) == x /= NotYet

\* number of complete lines in a byte sequence
LineCount(bytes) == Cardinality({i \in 1..Len(bytes) : bytes[i] = "\n"})

Min(S) == CHOOSE x \in S : \A y \in S : x <= y
Max(S) == CHOOSE x \in S : \A y \in S : x >= y

RECURSIVE DecValue(_)
\* the number a string of decimal digits denotes
DecValue(f) ==
    IF f = <<>> THEN 0 ELSE 10 * DecValue(SubSeq(f, 1, Len(f) - 1)) + DigitVal(f[Len(f)])

\* an unsigned decimal integer without sign in the range 0 to 65535
PlainPort(f) ==
    /\ f /= <<>>
    /\ \A i \in 1..Len(f) : IsDigit(f[i])
    /\ DecValue(f) <= 65535

\* the comma-separated fields of a query, each trimmed
QueryFields(text) ==
    LET fs == SplitOn(text, ",") IN [i \in 1..Len(fs) |-> Trim(fs[i])]

\* the field count is not 2, or some trimmed field is not a plain port
Malformed(text) ==
    LET fs == QueryFields(text) IN
    \/ Len(fs) /= 2
    \/ \E i \in 1..Len(fs) : ~PlainPort(fs[i])

\* ":<local_port>->" written out for the ports searched for
RefTarget(port) ==
    CASE port = 4000 -> <<":", "4", "0", "0", "0", "-", ">">>
      [] port = 5000 -> <<":", "5", "0", "0", "0", "-", ">">>
      [] port = 9999 -> <<":", "9", "9", "9", "9", "-", ">">>

\* the positions at which the lines of a listing start
LineStarts(out) ==
    {p \in 1..Len(out) : p = 1 \/ out[p - 1] = "\n"}

\* the line starting at p, with its terminator when it has one
LineAt(out, p) ==
    LET ends == {i \in p..Len(out) : out[i] = "\n"}
    IN  SubSeq(out, p, IF ends = {} THEN Len(out) ELSE Min(ends))

\* the username of the nearest login line before the first network-name line
\* containing ":<port>->"; none without such a line or without a login line
\* before it
RefOwner(port, out) ==
    LET hits == {p \in LineStarts(out) :
                    out[p] = "n" /\ Contains(LineAt(out, p), RefTarget(port))}
    IN  IF hits = {} THEN None
        ELSE LET logins == {p \in LineStarts(out) : p < Min(hits) /\ out[p] = "L"}
             IN  IF logins = {} THEN None
                 ELSE Some(Trim(Tail(LineAt(out, Max(logins)))))

\* where the first network-name line containing ":<port>->" starts, 0
\* without one
FirstHit(port, out) ==
    LET hits == {p \in LineStarts(out) :
                    out[p] = "n" /\ Contains(LineAt(out, p), RefTarget(port))}
    IN  IF hits = {} THEN 0 ELSE Min(hits)

(***************************************************************************)
(* Claims about the server (specification Spec).                           *)
(***************************************************************************)
ParseFailed(s) == Done(parsed[s]) /\ ~parsed[s].ok
LookupCompleted(s) == Done(lsofResult[s]) /\ lsofResult[s].ok
LookupFailed(s) == Done(lsofResult[s]) /\ ~lsofResult[s].ok

\* the response lines of the wire protocol, after the query text
Text_InvalidPort == <<" ", ":", " ", "E", "R", "R", "O", "R", " ", ":", " ", "I", "N", "V", "A", "L", "I", "D", "-", "P", "O", "R", "T", "\r">>
Text_NoUser == <<" ", ":", " ", "E", "R", "R", "O", "R", " ", ":", " ", "N", "O", "-", "U", "S", "E", "R", "\r">>
Text_UserId == <<" ", ":", " ", "U", "S", "E", "R", "I", "D", " ", ":", " ", "U", "N", "I", "X", " ", ":", " ">>

IsPrefix(a, b) == Len(a) <= Len(b) /\ SubSeq(b, 1, Len(a)) = a

\* C1 as stated: at most one response line is written to the client over the
\* life of the connection, and a session that has read a query line has
\* written exactly one response line when it ends after a parse failure or a
\* completed lookup.
C1_ExactlyOneResponseLine ==
    \A s \in Sessions :
        /\ LineCount(written[s]) <= 1
        /\ pc[s] = "Closed" /\ (ParseFailed(s) \/ LookupCompleted(s))
              => LineCount(written[s]) = 1

\* C1 as amended: at most one response line is written; after a parse failure
\* or a completed lookup the session hands exactly one response line to the
\* connection, and that line is written to the client exactly when the send
\* succeeds: a failed send ends the session with nothing written.
C1_OneResponseLineUnlessSendFails ==
    \A s \in Sessions :
        /\ LineCount(written[s]) <= 1
        /\ Len(sent[s]) <= 1
        /\ pc[s] = "Closed" /\ (ParseFailed(s) \/ LookupCompleted(s))
              => /\ Len(sent[s]) = 1
                 /\ exit[s] /= "SendError" => written[s] = sent[s][1] \o <<"\n">>
                 /\ exit[s] = "SendError" => written[s] = <<>>

C1_Witness ==
    \E s, t \in Sessions :
        /\ pc[s] = "Closed" /\ LookupCompleted(s) /\ exit[s] = "SendError"
        /\ pc[t] = "Closed" /\ ParseFailed(t) /\ LineCount(written[t]) = 1

\* C2 as stated: an accept failure does not end the listener loop, and the
\* only error that ends the process is the failure to bind.
C2_AcceptFailureNotFatal ==
    /\ acceptFailed => listener = "Listening"
    /\ listener = "Exited" => exitCause = "bind"

\* C3: a session whose query parsed and whose run_lsof call failed is Closed
\* and has handed nothing to the connection, USERID or ERROR.
C3_LookupFailureSilent ==
    \A s \in Sessions :
        LookupFailed(s) =>
            /\ parsed[s].ok
            /\ pc[s] = "Closed"
            /\ sent[s] = <<>>
            /\ written[s] = <<>>

C3_Witness ==
    \E s \in Sessions : LookupFailed(s) /\ pc[s] = "Closed" /\ exit[s] = "LookupError"

\* the owner the listings of LsofOutputs give each local port: alice holds
\* 4000 and bob 5000 in the listing, nobody anything in the empty output
ListedOwner(port, stdout) ==
    IF Len(stdout) = 0 THEN None
    ELSE CASE port = 4000 -> Some(<<"a", "l", "i", "c", "e">>)
           [] port = 5000 -> Some(<<"b", "o", "b">>)
           [] OTHER -> None

\* the ports a query line asks about
AskedPorts(q) ==
    CASE q = Q_4000_5000 -> [local_port |-> 4000, remote_port |-> 5000]
      [] q = Q_5000_80 -> [local_port |-> 5000, remote_port |-> 80]
      [] q = Q_4000_80 -> [local_port |-> 4000, remote_port |-> 80]

\* the response line a session owes its own client, from its own query, its
\* own parse result and the owner found in the output of its own lookup
OwnLine(s) ==
    LET q == query[s].val IN
    IF ~parsed[s].ok THEN q \o Text_InvalidPort
    ELSE IF matched[s].some THEN q \o Text_UserId \o matched[s].val \o <<"\r">>
    ELSE q \o Text_NoUser

\* C4: under every interleaving, each session's lookup is called with its own
\* peer address and the remote port of its own query, and every response it
\* sends or writes begins with its own query text and carries the result of
\* its own lookup.
C4_NoCrossTalk ==
    \A s \in Sessions :
        /\ Done(parsed[s]) =>
              parsed[s].ok <=> query[s].val /= Q_notaport_80
        /\ Done(lsofCall[s]) =>
              /\ parsed[s] = Ok(AskedPorts(query[s].val))
              /\ lsofCall[s].remote_host = peer[s]
              /\ lsofCall[s].remote_port = AskedPorts(query[s].val).remote_port
        /\ Done(matched[s]) =>
              matched[s] = ListedOwner(AskedPorts(query[s].val).local_port,
                                       lsofRun[s].stdout)
        /\ sent[s] /= <<>> => sent[s] = <<OwnLine(s)>>
        /\ written[s] /= <<>> =>
              /\ IsPrefix(query[s].val \o <<" ", ":", " ">>, written[s])
              /\ written[s] = OwnLine(s) \o <<"\n">>

C4_Witness ==
    \E s, t \in Sessions :
        /\ s /= t
        /\ written[s] /= <<>> /\ pc[t] = "Responding"
        /\ query[s] /= query[t] /\ peer[s] /= peer[t]
        /\ Done(matched[s]) /\ Done(matched[t])
        /\ matched[s].some /\ matched[t].some /\ matched[s] /= matched[t]

\* C5: after a parse failure the session has handed the connection the single
\* line "<query> : ERROR : INVALID-PORT\r", has not called the lookup, has
\* read once, and is sending that line or Closed; the line is what the client
\* gets unless the send failed.
C5_InvalidPortResponse ==
    \A s \in Sessions :
        ParseFailed(s) =>
            /\ sent[s] = <<query[s].val \o Text_InvalidPort>>
            /\ ~Done(lsofCall[s]) /\ ~Done(lsofRun[s]) /\ ~Done(lsofResult[s])
            /\ reads[s] = 1
            /\ pc[s] \in {"SendingInvalidPort", "Closed"}
            /\ pc[s] = "Closed" /\ exit[s] /= "SendError"
                  => written[s] = query[s].val \o Text_InvalidPort \o <<"\n">>
            /\ pc[s] /= "Closed" \/ exit[s] = "SendError" => written[s] = <<>>

C5_Witness ==
    \E s \in Sessions :
        /\ ParseFailed(s) /\ pc[s] = "Closed" /\ exit[s] = "InvalidPort"
        /\ query[s].val = Q_notaport_80
        /\ written[s] /= <<>>

\* C6: once the owner matcher has run, the response is "<query> : USERID :
\* UNIX : <username>\r" exactly when it returned a username and "<query> :
\* ERROR : NO-USER\r" exactly when it returned none, the query text being the
\* line the client sent, unchanged.
C6_ResponseFollowsMatch ==
    \A s \in Sessions :
        Done(matched[s]) =>
            /\ query[s].val \in Queries
            /\ IF matched[s].some
               THEN /\ sent[s] = <<query[s].val \o Text_UserId \o matched[s].val \o <<"\r">>>>
                    /\ sent[s] /= <<query[s].val \o Text_NoUser>>
               ELSE sent[s] = <<query[s].val \o Text_NoUser>>
            /\ written[s] /= <<>> => written[s] = sent[s][1] \o <<"\n">>

C6_Witness ==
    \E s, t \in Sessions :
        /\ Done(matched[s]) /\ matched[s].some /\ written[s] /= <<>>
        /\ query[s].val = Q_5000_80
        /\ Done(matched[t]) /\ ~matched[t].some /\ written[t] /= <<>>

\* C10 as stated: run_lsof fails when the subprocess cannot be spawned and
\* when it exits abnormally, and succeeds with the captured standard output
\* when it completes successfully.
C10_AbnormalExitFails ==
    \A s \in Sessions :
        Done(lsofRun[s]) =>
            /\ ~lsofRun[s].spawned \/ ~lsofRun[s].success => LookupFailed(s)
            /\ lsofRun[s].spawned /\ lsofRun[s].success => LookupCompleted(s)

\* C10 as amended: run_lsof fails exactly when the subprocess cannot be
\* spawned; when the subprocess runs to its end, with whatever exit status,
\* run_lsof succeeds with the captured standard output, and an empty output
\* leads the session to answer NO-USER rather than to abort.
C10_FailsOnlyWhenNotSpawned ==
    \A s \in Sessions :
        Done(lsofRun[s]) =>
            /\ ~lsofRun[s].spawned <=> LookupFailed(s)
            /\ lsofRun[s].spawned =>
                  /\ LookupCompleted(s)
                  /\ matched[s] = ListedOwner(parsed[s].val.local_port, lsofRun[s].stdout)
                  /\ exit[s] /= "LookupError"
                  /\ lsofRun[s].stdout = <<>> =>
                        sent[s] = <<query[s].val \o Text_NoUser>>

C10_Witness ==
    \E s, t \in Sessions :
        /\ Done(lsofRun[s]) /\ lsofRun[s].spawned /\ ~lsofRun[s].success
        /\ lsofRun[s].stdout /= <<>> /\ matched[s].some /\ written[s] /= <<>>
        /\ Done(lsofRun[t]) /\ lsofRun[t].spawned /\ lsofRun[t].success
        /\ lsofRun[t].stdout = <<>> /\ written[t] /= <<>>
        /\ exit[t] = "Ok"

\* the lsof target written out: the family and the address for each remote
\* host, and the port
RefTargetHead(host) ==
    CASE host = HostV4a -> <<"4", "T", "C", "P", "@", "1", "9", "2", ".", "0", ".", "2", ".", "5">>
      [] host = HostV4b -> <<"4", "T", "C", "P", "@", "1", "0", ".", "0", ".", "0", ".", "2", "5", "5">>
      [] host = HostMappedA -> <<"4", "T", "C", "P", "@", "1", "9", "2", ".", "0", ".", "2", ".", "5">>
      [] host = HostMappedB -> <<"4", "T", "C", "P", "@", "1", "0", ".", "0", ".", "0", ".", "2", "5", "5">>
      [] host = HostV6a -> <<"6", "T", "C", "P", "@", "[", "2", "0", "0", "1", ":", "d", "b", "8", ":", ":", "1", "]">>
      [] host = HostLoopback -> <<"6", "T", "C", "P", "@", "[", ":", ":", "1", "]">>
      [] host = HostUnspecified -> <<"6", "T", "C", "P", "@", "[", ":", ":", "]">>
      [] host = HostShifted -> <<"6", "T", "C", "P", "@", "[", ":", ":", "f", "f", "f", "f", ":", "0", ":", "c", "0", "0", "0", ":", "2", "0", "5", "]">>
      [] host = HostLinkLocal -> <<"6", "T", "C", "P", "@", "[", "f", "e", "8", "0", ":", ":", "1", ":", "0", ":", "0", ":", "1", "]">>
      [] host = HostNoRun -> <<"6", "T", "C", "P", "@", "[", "2", "0", "0", "1", ":", "d", "b", "8", ":", "0", ":", "1", ":", "0", ":", "2", ":", "0", ":", "3", "]">>

RefPortText(port) ==
    CASE port = 0 -> <<"0">>
      [] port = 7 -> <<"7">>
      [] port = 80 -> <<"8", "0">>
      [] port = 113 -> <<"1", "1", "3">>
      [] port = 4000 -> <<"4", "0", "0", "0">>
      [] port = 5000 -> <<"5", "0", "0", "0">>
      [] port = 65535 -> <<"6", "5", "5", "3", "5">>

RefTargetText(host, port) == RefTargetHead(host) \o <<":">> \o RefPortText(port)

\* C11: the remote host a session calls the lookup with is the peer address
\* of its own socket, and the target is decided by that address and the
\* parsed remote port alone: two sessions with the same peer address and the
\* same remote port call the lookup with the same host and the same target,
\* whatever the rest of their query lines.
C11_RemoteIpFromPeer ==
    /\ \A s \in Sessions :
          Done(lsofCall[s]) =>
              /\ lsofCall[s].remote_host = peer[s]
              /\ lsofCall[s].target
                    = RefTargetText(peer[s], AskedPorts(query[s].val).remote_port)
    /\ \A s, t \in Sessions :
          /\ Done(lsofCall[s]) /\ Done(lsofCall[t])
          /\ peer[s] = peer[t]
          /\ parsed[s].val.remote_port = parsed[t].val.remote_port
          => /\ lsofCall[s].remote_host = lsofCall[t].remote_host
             /\ lsofCall[s].target = lsofCall[t].target

C11_Witness ==
    \E s, t \in Sessions :
        /\ s /= t /\ Done(lsofCall[s]) /\ Done(lsofCall[t])
        /\ peer[s] = PeerMapped /\ peer[t] = PeerMapped
        /\ query[s].val = Q_5000_80 /\ query[t].val = Q_4000_80
        /\ parsed[s].val.local_port /= parsed[t].val.local_port
        /\ lsofCall[s].target = lsofCall[t].target
        /\ lsofCall[s].target = <<"4", "T", "C", "P", "@", "1", "9", "2", ".", "0", ".", "2", ".", "5", ":", "8", "0">>

\* session s reads, calls the lookup, hands a line to the connection or writes
\* to the client in a step
Acts(s) ==
    \/ reads'[s] > reads[s]
    \/ Done(lsofCall'[s]) /\ lsofCall'[s] /= lsofCall[s]
    \/ Done(lsofRun'[s]) /\ lsofRun'[s] /= lsofRun[s]
    \/ Len(sent'[s]) > Len(sent[s])
    \/ Len(written'[s]) > Len(written[s])

\* a connection has been accepted and its handler has not returned
InFlight(s) == pc[s] \notin {"Idle", "Closed"}

\* Closed is terminal: a handler that has returned stays returned and does
\* nothing more
ClosedIsTerminal ==
    [][\A s \in Sessions : pc[s] = "Closed" => pc'[s] = "Closed" /\ ~Acts(s)]_vars

\* C13 as stated (specification FairOne): Closed is terminal, a session does
\* no read, lookup or write after it, and, the peer eventually sending a line
\* or closing and the lookup eventually completing, every accepted session
\* eventually reaches Closed.
C13_EverySessionCloses ==
    /\ ClosedIsTerminal
    /\ \A s \in Sessions : [](InFlight(s) => <>(pc[s] = "Closed"))

\* what holds of the second half (specification FairOne): every accepted
\* session eventually reaches Closed unless the process ends first
ClosesUnlessProcessEnds ==
    \A s \in Sessions : [](InFlight(s) => <>(pc[s] = "Closed" \/ listener = "Exited"))

\* everything the model holds of connection s
SessionData(s) ==
    <<pc[s], peer[s], received[s], query[s], parsed[s], lsofCall[s], lsofRun[s],
      lsofResult[s], matched[s], sent[s], written[s], reads[s], exit[s]>>

\* a step of the handler of connection s: it leaves an await for the next
\* stage or for its return
HandlerStep(s) ==
    /\ InFlight(s)
    /\ pc'[s] /= pc[s]
    /\ pc'[s] \in {"Invoking", "SendingInvalidPort", "Responding", "Closed"}

\* C16 (specification FairOthers): whatever the other sessions are doing,
\* waiting or ended in whatever way, the listener can accept the next
\* connection; a step of one handler changes neither the listener nor
\* anything of another session; and with the first session waiting for ever,
\* every other accepted session still runs to its end: it stops being in
\* flight only by returning or with the process, and it does not stay in
\* flight for ever.
C16_SessionsIndependent ==
    /\ [](Alive /\ (\E s \in Sessions : pc[s] = "Idle")
            => ENABLED (\E ip \in Peers : AcceptOk(ip)))
    /\ [][\A s \in Sessions :
            /\ HandlerStep(s) =>
                  /\ listener' = listener /\ exitCause' = exitCause
                  /\ acceptFailed' = acceptFailed
                  /\ \A t \in Sessions \ {s} : SessionData(t)' = SessionData(t)
            /\ InFlight(s) /\ ~InFlight(s)' =>
                  pc'[s] = "Closed" \/ listener' = "Exited"]_vars
    /\ \A t \in Sessions \ {1} : []<>(~InFlight(t) \/ listener = "Exited")

C16_Witness ==
    /\ Alive
    /\ pc[1] = "Invoking"
    /\ pc[2] = "Closed" /\ exit[2] = "Ok"
    /\ query[2] /= query[1]
    /\ written[2] = OwnLine(2) \o <<"\n">>

(***************************************************************************)
(* Claims about one connection (specifications SpecOne and FairOne).       *)
(***************************************************************************)
\* the bytes before the first line terminator, or all of them without one
FirstLineLength(bytes) ==
    LET ends == {i \in 1..Len(bytes) : bytes[i] = "\n"}
    IN  IF ends = {} THEN Len(bytes) ELSE Min(ends) - 1

HasTerminator(bytes) == \E i \in 1..Len(bytes) : bytes[i] = "\n"

\* the peer closed having sent nothing (or a lone carriage return)
ClosedWithoutLine(inp) == inp.end = "eof" /\ inp.bytes \in {<<>>, <<"\r">>}

\* the input runs past 1024 bytes before any line terminator
ExceedsMaxLength(inp) == FirstLineLength(inp.bytes) > 1024

\* reading fails: the connection breaks before a line is complete, or the
\* line is not text
ReadFails(inp) ==
    \/ inp.end = "reset" /\ ~HasTerminator(inp.bytes)
    \/ \E i \in 1..FirstLineLength(inp.bytes) : inp.bytes[i] = BadByte

NoQueryWitnessClosed ==
    \E s \in Sessions :
        Done(received[s]) /\ ClosedWithoutLine(received[s]) /\ pc[s] = "Closed"

NoQueryWitnessReadFails ==
    \E s \in Sessions :
        /\ Done(received[s]) /\ ReadFails(received[s]) /\ received[s].end = "reset"
        /\ pc[s] = "Closed"

\* a USERID or NO-USER response to query q
IsLookupAnswer(line, q) ==
    \/ line = q \o Text_NoUser
    \/ IsPrefix(q \o Text_UserId, line)

\* the stages in the order of handle_client: where a session may go next
StageOrder ==
    {<<"Idle", "AwaitingQuery">>, <<"Idle", "Closed">>,
     <<"AwaitingQuery", "Invoking">>, <<"AwaitingQuery", "SendingInvalidPort">>,
     <<"AwaitingQuery", "Closed">>,
     <<"SendingInvalidPort", "Closed">>,
     <<"Invoking", "Responding">>, <<"Invoking", "Closed">>,
     <<"Responding", "Closed">>,
     <<"AwaitingQuery", "Aborted">>, <<"SendingInvalidPort", "Aborted">>,
     <<"Invoking", "Aborted">>, <<"Responding", "Aborted">>}

\* what has happened by each stage of session s
StagesInOrder(s) ==
    /\ Done(parsed[s]) => query[s].some /\ reads[s] = 1
    /\ Done(lsofCall[s]) => Done(parsed[s]) /\ parsed[s].ok
    /\ Done(lsofRun[s]) => Done(lsofCall[s])
    /\ Done(lsofResult[s]) => Done(lsofRun[s])
    /\ Done(matched[s]) => LookupCompleted(s) /\ lsofRun[s].spawned
    /\ pc[s] = "Invoking" => Done(lsofCall[s]) /\ ~Done(lsofRun[s]) /\ sent[s] = <<>>
    /\ pc[s] = "Responding" => Done(matched[s])
    /\ \A i \in 1..Len(sent[s]) :
          IsLookupAnswer(sent[s][i], query[s].val)
              => LookupCompleted(s) /\ Done(matched[s])
    /\ written[s] /= <<>> =>
          /\ sent[s] /= <<>>
          /\ IsLookupAnswer(SubSeq(written[s], 1, Len(written[s]) - 1), query[s].val)
                => LookupCompleted(s) /\ Done(matched[s])

\* a step of session s keeps the order: the lookup is called once, completes
\* once, the matcher runs once, and the stage moves forward
StepInOrder(s) ==
    /\ pc'[s] /= pc[s] => <<pc[s], pc'[s]>> \in StageOrder
    /\ Done(lsofCall'[s]) /\ lsofCall'[s] /= lsofCall[s]
          => ~Done(lsofCall[s]) /\ pc[s] = "AwaitingQuery" /\ parsed'[s].ok
    /\ Done(lsofRun'[s]) /\ lsofRun'[s] /= lsofRun[s]
          => ~Done(lsofRun[s]) /\ pc[s] = "Invoking" /\ Done(lsofCall[s])
    /\ Done(matched'[s]) /\ matched'[s] /= matched[s]
          => ~Done(matched[s]) /\ pc[s] = "Invoking" /\ lsofResult'[s].ok
    /\ Len(written'[s]) > Len(written[s])
          => pc[s] \in {"SendingInvalidPort", "Responding"} /\ sent[s] /= <<>>

\* C15: within a session the stages come in the order read, parse, invoke,
\* match, respond: the lookup is called at most once and only after the
\* query has parsed, the owner matcher runs only on the output of a completed
\* lookup, and no USERID or NO-USER response is handed over or written
\* before the lookup has completed.
C15_StagesInOrder ==
    /\ [](\A s \in Sessions : StagesInOrder(s))
    /\ [][\A s \in Sessions : StepInOrder(s)]_vars

C15_Witness ==
    \E s \in Sessions :
        /\ pc[s] = "Closed" /\ exit[s] = "Ok"
        /\ reads[s] = 1 /\ parsed[s].ok /\ Done(lsofCall[s]) /\ LookupCompleted(s)
        /\ matched[s].some /\ Len(sent[s]) = 1
        /\ IsLookupAnswer(sent[s][1], query[s].val)
        /\ written[s] = sent[s][1] \o <<"\n">>

\* the username of a USERID response to query q
UserOf(line, q) ==
    SubSeq(line, Len(q) + Len(Text_UserId) + 1, Len(line) - 1)

\* C18: the username of every USERID response a session sends is the trimmed
\* remainder of a login line of the session's own lookup output, one that
\* stands before the first network-name line containing the target; and
\* when the login line nearest before that line is blank the session sends a
\* USERID response with an empty username, not NO-USER.
C18_UserFromLoginLine ==
    \A s \in Sessions :
        /\ \A i \in 1..Len(sent[s]) :
              IsPrefix(query[s].val \o Text_UserId, sent[s][i]) =>
                  LET out == lsofRun[s].stdout
                      port == AskedPorts(query[s].val).local_port
                  IN  /\ LookupCompleted(s)
                      /\ FirstHit(port, out) > 0
                      /\ \E p \in LineStarts(out) :
                            /\ out[p] = "L" /\ p < FirstHit(port, out)
                            /\ UserOf(sent[s][i], query[s].val)
                                  = Trim(Tail(LineAt(out, p)))
        /\ /\ Done(matched[s])
           /\ RefOwner(AskedPorts(query[s].val).local_port, lsofRun[s].stdout)
                 = Some(<<>>)
           => sent[s] = <<query[s].val \o Text_UserId \o <<"\r">>>>

C18_Witness ==
    \E s \in Sessions :
        /\ pc[s] = "Closed" /\ exit[s] = "Ok"
        /\ lsofRun[s].stdout = BlankLoginOutput
        /\ query[s].val = Q_4000_5000
        /\ written[s] = Q_4000_5000 \o Text_UserId \o <<"\r", "\n">>

(***************************************************************************)
(* Claims about search_for_port (specification SpecSearch).                *)
(***************************************************************************)
\* C7 as stated: for every lookup output and local port, search_for_port
\* returns the username of the nearest login line before the first
\* network-name line containing ":<local_port>->", and none when there is no
\* such line or no login line before it.
C7_FindOwner ==
    Done(sResult) => sResult = RefOwner(sInput.port, sInput.output)

\* the same on listings every byte of which is text
FindOwnerOnText ==
    Done(sResult) /\ IsUtf8(sInput.output)
        => sResult = RefOwner(sInput.port, sInput.output)

\* the listing up to and including that line
UpToFirstHit(port, out) ==
    LET p == FirstHit(port, out) IN SubSeq(out, 1, p + Len(LineAt(out, p)) - 1)

\* lines to put after it: nothing, records that contain the target under
\* other logins, a line that is not text
SearchTails ==
    {<<>>,
     Line_Lbob \o Line_n4000 \o Line_n5000,
     Line_Lalice \o Line_n5000 \o Line_Lbob \o Line_n4000,
     Line_Lblank \o <<"n", "*", ":", "9", "9", "9", "9", "-", ">", "*", "\n">>,
     Line_bad \o Line_Lbob \o Line_n4000}

\* C17: the result is decided by the lines up to and including the first
\* network-name line containing ":<local_port>->": whatever follows that
\* line, or nothing, the result is the same; and when no login line precedes
\* that line the result is none, whatever records follow.
C17_FirstMatchWins ==
    Done(sResult) /\ FirstHit(sInput.port, sInput.output) > 0 =>
        LET p == FirstHit(sInput.port, sInput.output)
            head == UpToFirstHit(sInput.port, sInput.output)
            tails == IF head[Len(head)] = "\n" THEN SearchTails ELSE {<<>>}
        IN  /\ \A tail \in tails :
                  search_for_port(sInput.port, head \o tail) = sResult
            /\ (\A q \in LineStarts(sInput.output) : q < p => sInput.output[q] /= "L")
                  => sResult = None

C17_Witness ==
    /\ Done(sResult)
    /\ sInput.port = 4000
    /\ sInput.output = Line_n4000 \o Line_Lalice \o Line_n4000
    /\ FirstHit(sInput.port, sInput.output) = 1
    /\ sResult = None

\* the listing before its first line that is not text
BeforeUnreadable(out) ==
    LET bad == {i \in 1..Len(out) : out[i] = BadByte}
    IN  IF bad = {} THEN out
        ELSE SubSeq(out, 1, Max({p \in LineStarts(out) : p <= Min(bad)}) - 1)

RECURSIVE WithoutOtherLines(_)
\* the listing without the lines that start with neither "L" nor "n"
WithoutOtherLines(out) ==
    IF out = <<>> THEN <<>>
    ELSE LET line == LineAt(out, 1) IN
         (IF line[1] \in {"L", "n"} THEN line ELSE <<>>)
             \o WithoutOtherLines(SubSeq(out, Len(line) + 1, Len(out)))

\* C19: on every lookup output search_for_port returns none or a username,
\* not an error; a line that is not text ends the scan as if the output
\* ended before it, so that a matching record after it is not found; and the
\* lines that start with neither "L" nor "n" change nothing.
C19_TotalScan ==
    Done(sResult) =>
        /\ \/ sResult = None
           \/ DOMAIN sResult = {"some", "val"} /\ sResult.some /\ IsUtf8(sResult.val)
        /\ sResult = RefOwner(sInput.port, BeforeUnreadable(sInput.output))
        /\ sResult = RefOwner(sInput.port,
                               WithoutOtherLines(BeforeUnreadable(sInput.output)))

C19_Witness ==
    /\ Done(sResult)
    /\ sInput.port = 4000
    /\ sInput.output = Line_bad \o Line_Lalice \o Line_n4000
    /\ sResult = None
    /\ RefOwner(sInput.port, sInput.output) /= None

\* a line of another kind between the login line and the record
OtherLinesWitness ==
    /\ Done(sResult)
    /\ sInput.port = 4000
    /\ sInput.output = Line_Lalice \o Line_p \o Line_n4000
    /\ sResult = Some(<<"a", "l", "i", "c", "e">>)

(***************************************************************************)
(* Claims about parse_query (specification SpecParse).                     *)
(***************************************************************************)
\* C8 as stated: every input whose field count is not 2, or with a trimmed
\* field that is not an unsigned decimal integer without sign in 0..65535,
\* makes parse_query fail.
C8_MalformedFails ==
    Done(pResult) /\ Malformed(pInput.text) => ~pResult.ok

\* the same on inputs without a '+'
MalformedFailsWithoutPlus ==
    Done(pResult) /\ Malformed(pInput.text)
                  /\ (\A i \in 1..Len(pInput.text) : pInput.text[i] /= "+")
        => ~pResult.ok

\* C9: for a and b in 0..65535 and any whitespace around the comma and the
\* numbers, parse_query on "<a>,<b>" returns a as local_port and b as
\* remote_port.
C9_WellFormedParses ==
    Done(pResult) /\ pInput.wf
        => pResult = Ok([local_port |-> pInput.a, remote_port |-> pInput.b])

C9_Witness ==
    /\ Done(pResult) /\ pInput.wf
    /\ pInput.a = U16Max /\ pInput.b = 0
    /\ Len(pInput.text) = 7 + 4 * MaxPad
    /\ pResult.ok

(***************************************************************************)
(* Claims about the lsof target (specification SpecTarget).                *)
(***************************************************************************)
\* C12: the target is "4TCP@<ipv4>:<remote_port>" for an IPv4 remote address
\* and for an IPv4-mapped IPv6 address (first five segments zero, the sixth
\* 0xffff), with the IPv4 address unwrapped, and "6TCP@[<ipv6>]:<remote_port>"
\* for every other IPv6 address.
C12_TargetByFamily ==
    Done(tResult) => tResult = RefTargetText(tInput.host, tInput.port)

C12_Witness ==
    /\ Done(tResult)
    /\ tInput.host = HostMappedA /\ tInput.port = 80
    /\ tResult = <<"4", "T", "C", "P", "@", "1", "9", "2", ".", "0", ".", "2", ".", "5", ":", "8", "0">>

====
